---- MODULE Spec2Model ----
(***************************************************************************)
(* Order placement middleware of shopify-inventory-api.                    *)
(*                                                                         *)
(* The repository holds three revisions of the /place-order handler and    *)
(* of validateInventoryForOrder (src/index.js, src/unnamed/part_000 and    *)
(* src/unnamed/part_001) and, in src/index.js, the /place-order-direct     *)
(* handler.  The revision and the endpoint that serve the request are      *)
(* fixed when the process starts (variables rev and endpoint); one request *)
(* is followed from its arrival to its response.  Every await of the       *)
(* handler is a pair of steps: the outbound call is issued (appended to    *)
(* calls) and later settled by the reply of the external system.           *)
(*                                                                         *)
(* JavaScript objects are records; a key that is absent from the object is *)
(* absent from the record's DOMAIN.                                        *)
(***************************************************************************)
EXTENDS Integers, Sequences, FiniteSets, TLC

\* ---- bounds of the model -------------------------------------------------
MaxItems == 2     \* longest line_items list of a request
MaxQty == 2       \* requested quantities 1..MaxQty
MaxStock == 2     \* inventory_quantity outcomes 0..MaxStock
MaxProducts == 2  \* longest products list handed to findBestVariant
MaxVariants == 2  \* longest variants list of one product

VARIABLES
    rev,              \* revision serving the request
    endpoint,         \* route of the request
    webhookUrl,       \* MAKE_WEBHOOK_URL is configured
    req,              \* req.body
    pc,               \* position of the handler
    idx,              \* validateInventoryForOrder: index of the current item
    results,          \* validateInventoryForOrder: results / inventoryResults
    outcomes,         \* outcome of each settled outbound call, in the order of calls
    draftOrder,       \* draftOrder / createdOrder returned by the commerce API
    invoiceEmailSent, \* invoiceEmailSent flag of the handler
    response,         \* response object built by the handler, not yet sent
    calls,            \* outbound calls issued so far, in order
    sent,             \* HTTP responses sent to the caller, in order
    products,         \* findBestVariant: the products argument
    requestedVariant, \* findBestVariant: the requestedVariant argument
    matchingVariants, \* the sequence findBestVariant returned
    config,           \* SHOPIFY_CONFIG as read from the environment
    stock,            \* inventory_quantity of the backend, for the variants tracked
    parked            \* locals of the other request in flight, if there is one

vars == <<rev, endpoint, webhookUrl, req, pc, idx, results, outcomes,
          draftOrder, invoiceEmailSent, response, calls, sent,
          products, requestedVariant, matchingVariants, config, stock, parked>>

\* ---- JavaScript values ---------------------------------------------------
Undefined == "undefined"
NoFields == <<>>                       \* the object {}
Has(obj, key) == key \in DOMAIN obj
Get(obj, key) == IF Has(obj, key) THEN obj[key] ELSE Undefined
Falsy(s) == s \in {Undefined, ""}      \* !s for a string or undefined
Or(s, dflt) == IF Falsy(s) THEN dflt ELSE s   \* s || dflt

\* ---- start-up configuration ----------------------------------------------
Revisions == {"index.js", "part_000", "part_001"}
Endpoints == {"/place-order", "/place-order-direct"}
Deployments ==
    {<<r, "/place-order">> : r \in Revisions} \cup {<<"index.js", "/place-order-direct">>}

\* SHOPIFY_CONFIG: each environment variable is set or undefined
ShopDomain == "shop.myshopify.com"
AccessToken == "shpat_token"
FullConfig == [shop_domain |-> ShopDomain, access_token |-> AccessToken]
Configs == [shop_domain : {ShopDomain, Undefined}, access_token : {AccessToken, Undefined}]

\* ---- requests ------------------------------------------------------------
\* the catalog of the commerce backend: two variants, see TitleOf and PriceOf
Variants == {1, 2}
Quantities == 1..MaxQty
Stocks == 0..MaxStock
LineItems == [variant_id : Variants, quantity : Quantities]
LineItemLists == UNION {[1..n -> LineItems] : n \in 0..MaxItems}
Email == "ann@example.com"
CustomerInfos ==
    { NoFields,
      [email |-> ""],
      [first_name |-> "Ann", last_name |-> "Lee"],
      [email |-> Email, first_name |-> "Ann"] }
Requests ==
    LET cis == {NoFields} \cup {[customer_info |-> c] : c \in CustomerInfos}
        lis == {NoFields} \cup {[line_items |-> l] : l \in LineItemLists}
    IN  {c @@ l : c \in cis, l \in lis}

\* requests that pass the input checks and exercise the order assembler:
\* customer_info with and without names and phone, each address absent, empty,
\* partial or complete, and line items carrying caller-supplied extras
OrderCustomerInfos ==
    { [email |-> Email],
      [email |-> Email, first_name |-> "Ann"],
      [email |-> Email, last_name |-> "Lee", phone |-> "555-0100"],
      [email |-> Email, first_name |-> "Ann", last_name |-> "Lee", phone |-> "555-0100"] }
Addresses ==
    { NoFields,
      [city |-> "Austin"],
      [first_name |-> "Bob", last_name |-> "Ray", phone |-> "555-0199",
       address1 |-> "1 Main St", city |-> "Dallas", province |-> "TX",
       country |-> "US", zip |-> "75001"] }
OrderLineItemLists ==
    { <<[variant_id |-> 1, quantity |-> 1, price |-> "9.99", title |-> "Red / Small"]>>,
      <<[variant_id |-> 2, quantity |-> 2],
        [variant_id |-> 1, quantity |-> 1, price |-> "9.99", title |-> "Red / Small"]>> }
OrderRequests ==
    LET ships == {NoFields} \cup {[shipping_address |-> a] : a \in Addresses}
        bills == {NoFields} \cup {[billing_address |-> a] : a \in Addresses}
    IN  {[customer_info |-> c, line_items |-> l] @@ sh @@ bi :
            c \in OrderCustomerInfos, l \in OrderLineItemLists, sh \in ships, bi \in bills}

Init ==
    /\ \E d \in Deployments : rev = d[1] /\ endpoint = d[2]
    /\ webhookUrl \in BOOLEAN
    /\ req \in Requests
    /\ pc = "start"
    /\ idx = 1
    /\ results = <<>>
    /\ outcomes = <<>>
    /\ draftOrder = NoFields
    /\ invoiceEmailSent = FALSE
    /\ response = NoFields
    /\ calls = <<>>
    /\ sent = <<>>
    /\ products = <<>>
    /\ requestedVariant = <<>>
    /\ matchingVariants = <<>>
    /\ config = FullConfig
    /\ stock = <<>>
    /\ parked = NoFields

\* a request of OrderRequests arrives
InitOrder ==
    /\ \E d \in Deployments : rev = d[1] /\ endpoint = d[2]
    /\ webhookUrl \in BOOLEAN
    /\ req \in OrderRequests
    /\ pc = "start"
    /\ idx = 1
    /\ results = <<>>
    /\ outcomes = <<>>
    /\ draftOrder = NoFields
    /\ invoiceEmailSent = FALSE
    /\ response = NoFields
    /\ calls = <<>>
    /\ sent = <<>>
    /\ products = <<>>
    /\ requestedVariant = <<>>
    /\ matchingVariants = <<>>
    /\ config = FullConfig
    /\ stock = <<>>
    /\ parked = NoFields

\* ---- responding ----------------------------------------------------------
\* res.status(s).json(body)
Respond(status, body) ==
    /\ sent' = Append(sent, [status |-> status, body |-> body])
    /\ pc' = "done"

\* if (!customer_info || !customer_info.email)
MissingEmail(body) ==
    \/ ~Has(body, "customer_info")
    \/ Falsy(Get(body.customer_info, "email"))

\* faulty variant: the emptiness test of the list is forgotten
MissingItems_absentOnly(body) == ~Has(body, "line_items")

\* if (!line_items || line_items.length === 0)
MissingItems(body) ==
    \/ ~Has(body, "line_items")
    \/ Len(body.line_items) = 0

\* ---- validateInventoryForOrder --------------------------------------------
\* what the commerce API knows of a variant
TitleOf(v) == IF v = 1 THEN "Red / Small" ELSE "Blue / Large"
PriceOf(v) == IF v = 1 THEN "10.00" ELSE "25.00"
VariantReplies ==
    {[id |-> v, inventory_quantity |-> s, title |-> TitleOf(v), price |-> PriceOf(v)] :
        v \in Variants, s \in Stocks}

\* faulty variant: strict comparison
IsAvailable_strict(inventory_quantity, quantity) == inventory_quantity > quantity

\* const available = variant.inventory_quantity >= item.quantity
IsAvailable(inventory_quantity, quantity) == inventory_quantity >= quantity

\* the object pushed in the try block
SuccessResult(r, item, variant) ==
    IF r = "part_000"
      THEN [variant_id |-> item.variant_id,
            title |-> variant.title,
            requested_quantity |-> item.quantity,
            available_quantity |-> variant.inventory_quantity,
            available |-> IsAvailable(variant.inventory_quantity, item.quantity)]
      ELSE [variant_id |-> item.variant_id,
            requested_quantity |-> item.quantity,
            available_quantity |-> variant.inventory_quantity,
            available |-> IsAvailable(variant.inventory_quantity, item.quantity),
            title |-> variant.title,
            price |-> variant.price]

\* the object pushed in the catch block
FailureResult(r, item) ==
    IF r = "part_000"
      THEN [variant_id |-> item.variant_id,
            title |-> "Unknown Product",
            requested_quantity |-> item.quantity,
            available_quantity |-> 0,
            available |-> FALSE]
      ELSE [variant_id |-> item.variant_id,
            available |-> FALSE,
            error |-> "Could not verify inventory"]

\* ---- order assembly ---------------------------------------------------------
\* obj?.key of an optional top-level object of the request
Addr(body, which, key) == IF Has(body, which) THEN Get(body[which], key) ELSE Undefined

\* customer / customerData
CustomerData(r, body) ==
    LET ci == body.customer_info IN
    CASE r = "index.js" ->
           [first_name |-> Get(ci, "first_name"),
            last_name |-> Get(ci, "last_name"),
            email |-> Get(ci, "email"),
            phone |-> Get(ci, "phone")]
      [] r = "part_000" ->
           [first_name |-> Or(Get(ci, "first_name"), Or(Addr(body, "shipping_address", "first_name"), "Unknown")),
            last_name |-> Or(Get(ci, "last_name"), Or(Addr(body, "shipping_address", "last_name"), "Customer")),
            email |-> Or(Get(ci, "email"), Addr(body, "shipping_address", "email")),
            phone |-> Or(Get(ci, "phone"), Addr(body, "shipping_address", "phone"))]
      [] r = "part_001" ->
           [first_name |-> Or(Get(ci, "first_name"), "Unknown"),
            last_name |-> Or(Get(ci, "last_name"), "Customer"),
            email |-> Get(ci, "email"),
            phone |-> Or(Get(ci, "phone"), "")]

\* line_items.map(item => ({...}))
ProjectItem(ep, item) ==
    IF ep = "/place-order-direct"
      THEN [variant_id |-> item.variant_id, quantity |-> item.quantity,
            price |-> Get(item, "price")]
      ELSE [variant_id |-> item.variant_id, quantity |-> item.quantity]

ProjectItems(ep, items) == [k \in 1..Len(items) |-> ProjectItem(ep, items[k])]

\* billing_address of orderData
BillingAddress(r, body) ==
    LET c == CustomerData(r, body)
        ship(key) == Addr(body, "shipping_address", key)
        bill(key) == Addr(body, "billing_address", key)
    IN  IF r = "part_001"
          THEN [first_name |-> c.first_name,
                last_name |-> c.last_name,
                email |-> c.email,
                phone |-> c.phone,
                address1 |-> Or(bill("address1"), Or(ship("address1"), "Address not provided")),
                city |-> Or(bill("city"), Or(ship("city"), "City not provided")),
                province |-> Or(bill("province"), Or(ship("province"), "Province not provided")),
                country |-> Or(bill("country"), Or(ship("country"), "Country not provided")),
                zip |-> Or(bill("zip"), Or(ship("zip"), "Zip not provided"))]
        ELSE IF Has(body, "billing_address")
          THEN body.billing_address
          ELSE [first_name |-> c.first_name,
                last_name |-> c.last_name,
                address1 |-> ship("address1"),
                city |-> ship("city"),
                province |-> ship("province"),
                country |-> ship("country"),
                zip |-> ship("zip"),
                phone |-> c.phone]

\* shipping_address of orderData
ShippingAddress(r, body) ==
    LET c == CustomerData(r, body)
        ship(key) == Addr(body, "shipping_address", key)
    IN  CASE r = "part_001" ->
               [first_name |-> c.first_name,
                last_name |-> c.last_name,
                phone |-> c.phone,
                address1 |-> Or(ship("address1"), "Address not provided"),
                city |-> Or(ship("city"), "City not provided"),
                province |-> Or(ship("province"), "Province not provided"),
                country |-> Or(ship("country"), "Country not provided"),
                zip |-> Or(ship("zip"), "Zip not provided")]
          [] r = "part_000" ->
               IF Has(body, "shipping_address")
                 THEN body.shipping_address
                 ELSE [first_name |-> c.first_name,
                       last_name |-> c.last_name,
                       address1 |-> "Address not provided",
                       city |-> "City not provided",
                       province |-> "Province not provided",
                       country |-> "Country not provided",
                       zip |-> "Zip not provided"]
          [] r = "index.js" ->
               IF Has(body, "shipping_address") THEN body.shipping_address ELSE Undefined

\* note of orderData
Note(r, body) ==
    IF r = "index.js"
      THEN Get(body, "special_instructions")
      ELSE Or(Get(body, "special_instructions"), "Draft order created via Bland AI phone call")

\* const orderData = {...}
OrderData(r, ep, body) ==
    [customer |-> CustomerData(r, body),
     line_items |-> ProjectItems(ep, body.line_items),
     billing_address |-> BillingAddress(r, body),
     shipping_address |-> ShippingAddress(r, body),
     note |-> Note(r, body)]

\* the body posted by createShopifyDraftOrder
DraftOrderPayload(orderData) ==
    [line_items |-> orderData.line_items,
     customer |-> orderData.customer,
     billing_address |-> orderData.billing_address,
     shipping_address |-> orderData.shipping_address,
     note |-> Or(orderData.note, "Draft order created via Bland AI phone call"),
     tags |-> "bland-ai,phone-order,draft",
     email |-> orderData.customer.email,
     send_invoice |-> FALSE,
     use_customer_default_address |-> FALSE]

\* the body posted by createShopifyOrder
OrderPayload(orderData) ==
    [line_items |-> orderData.line_items,
     customer |-> orderData.customer,
     billing_address |-> orderData.billing_address,
     shipping_address |-> orderData.shipping_address,
     financial_status |-> "pending",
     note |-> Or(orderData.note, "Order placed via Bland AI"),
     tags |-> "bland-ai,phone-order",
     send_receipt |-> TRUE,
     send_fulfillment_receipt |-> TRUE]

\* the creation call of the endpoint
CreateCall(r, ep, body) ==
    IF ep = "/place-order-direct"
      THEN [kind |-> "create_order", payload |-> OrderPayload(OrderData(r, ep, body))]
      ELSE [kind |-> "create_draft_order", payload |-> DraftOrderPayload(OrderData(r, ep, body))]

\* ---- the handler after validation --------------------------------------------
\* faulty variant: the order is rejected only when no item at all is available
UnavailableItems_onlyIfAll(inventoryCheck) ==
    IF \E k \in 1..Len(inventoryCheck) : inventoryCheck[k].available
      THEN <<>>
      ELSE inventoryCheck

\* inventoryCheck.filter(item => !item.available)
UnavailableItems(inventoryCheck) == SelectSeq(inventoryCheck, LAMBDA item : ~item.available)

\* `${item.title || 'Item'} (requested: ${item.requested_quantity}, available: ${item.available_quantity || 0})`
UnavailableText(item) ==
    [title |-> Or(Get(item, "title"), "Item"),
     requested |-> Get(item, "requested_quantity"),
     available |-> IF Has(item, "available_quantity") THEN item.available_quantity ELSE 0]

\* the rejection response
RejectionResponse(unavailableItems, body) ==
    [success |-> FALSE,
     error |-> "insufficient_inventory",
     message |-> [text |-> "Sorry, some items are not available in the requested quantities",
                  unavailableList |-> [k \in 1..Len(unavailableItems) |->
                                          UnavailableText(unavailableItems[k])]],
     unavailable_items |-> unavailableItems,
     call_id |-> Get(body, "call_id")]

\* timeout option of the webhook post, in ms; 0 is axios' default, no timeout
WebhookTimeout(r, type) ==
    IF r \in {"part_000", "part_001"} /\ type = "draft_order_created" THEN 10000 ELSE 0

\* the body posted to the webhook: {...response, type}, except in the
\* /check-inventory handler of part_002, which posts response itself
WebhookBody(r, body, type) ==
    IF r = "part_002" THEN body ELSE ("type" :> type) @@ body

\* faulty variant: the response is sent without notifying the webhook
NotifyAndRespond_noWebhook(body, type) ==
    /\ response' = body
    /\ Respond(200, body)
    /\ UNCHANGED calls

\* faulty variant: the response is posted to the webhook without its type tag
NotifyAndRespond_noType(body, type) ==
    /\ response' = body
    /\ IF webhookUrl
         THEN /\ calls' = Append(calls, [kind |-> "webhook",
                                         body |-> body,
                                         timeout |-> WebhookTimeout(rev, type)])
              /\ pc' = "webhook_wait"
              /\ UNCHANGED sent
         ELSE /\ Respond(200, body)
              /\ UNCHANGED calls

\* if (MAKE_WEBHOOK_URL) { await axios.post(MAKE_WEBHOOK_URL, {...response, type}) }
\* followed by res.json(response)
NotifyAndRespond(body, type) ==
    /\ response' = body
    /\ IF webhookUrl
         THEN /\ calls' = Append(calls, [kind |-> "webhook",
                                         body |-> WebhookBody(rev, body, type),
                                         timeout |-> WebhookTimeout(rev, type)])
              /\ pc' = "webhook_wait"
              /\ UNCHANGED sent
         ELSE /\ Respond(200, body)
              /\ UNCHANGED calls

\* the handler once the validator has returned inventoryCheck: reject, or
\* assemble the order and post it
AfterValidation(inventoryCheck) ==
    IF Len(UnavailableItems(inventoryCheck)) > 0
      THEN NotifyAndRespond(RejectionResponse(UnavailableItems(inventoryCheck), req),
                            "order_failed")
      ELSE /\ calls' = Append(calls, CreateCall(rev, endpoint, req))
           /\ pc' = "create_wait"
           /\ UNCHANGED <<response, sent>>

\* ---- the validator loop and the start of the handler ---------------------------
\* faulty variant: the loop stops at the first result that is not available
ValidatorLoop_shortCircuit(i, res) ==
    IF i <= Len(req.line_items) /\ \A k \in 1..Len(res) : res[k].available
      THEN /\ calls' = Append(calls, [kind |-> "lookup",
                                      variant_id |-> req.line_items[i].variant_id])
           /\ pc' = "lookup_wait"
           /\ UNCHANGED <<response, sent>>
      ELSE AfterValidation(res)

\* for (const item of lineItems) from item i on, res being the results so far:
\* the next axios.get is awaited, or the loop ends, results is returned and
\* the handler goes on
ValidatorLoop(i, res) ==
    IF i <= Len(req.line_items)
      THEN /\ calls' = Append(calls, [kind |-> "lookup",
                                      variant_id |-> req.line_items[i].variant_id])
           /\ pc' = "lookup_wait"
           /\ UNCHANGED <<response, sent>>
      ELSE AfterValidation(res)

\* app.post(...): from the arrival of the request to the first await
HandleRequest ==
    /\ pc = "start"
    /\ endpoint \in Endpoints
    /\ IF MissingEmail(req)
         THEN /\ Respond(400, [success |-> FALSE, error |-> "Customer email is required"])
              /\ UNCHANGED <<response, calls>>
         ELSE IF MissingItems(req)
         THEN /\ Respond(400, [success |-> FALSE, error |-> "At least one item is required"])
              /\ UNCHANGED <<response, calls>>
         ELSE ValidatorLoop(1, <<>>)
    /\ UNCHANGED <<products, requestedVariant, matchingVariants, config, stock, parked>>
    /\ UNCHANGED <<rev, endpoint, webhookUrl, req, idx, results, outcomes,
                   draftOrder, invoiceEmailSent>>

\* the awaited axios.get resolves with response.data.variant: the try block
\* pushes its result and the loop goes on
LookupSucceeds ==
    /\ pc = "lookup_wait"
    /\ \E variant \in VariantReplies :
          /\ variant.id = req.line_items[idx].variant_id
          /\ Has(stock, variant.id) => variant.inventory_quantity = stock[variant.id]
          /\ results' = Append(results, SuccessResult(rev, req.line_items[idx], variant))
          /\ outcomes' = Append(outcomes, [ok |-> TRUE, variant |-> variant])
          /\ ValidatorLoop(idx + 1,
                           Append(results, SuccessResult(rev, req.line_items[idx], variant)))
    /\ idx' = idx + 1
    /\ UNCHANGED <<products, requestedVariant, matchingVariants, config, stock, parked>>
    /\ UNCHANGED <<rev, endpoint, webhookUrl, req, draftOrder, invoiceEmailSent>>

\* faulty variant: the catch block only logs and pushes nothing
LookupFails_skip ==
    /\ pc = "lookup_wait"
    /\ outcomes' = Append(outcomes, [ok |-> FALSE])
    /\ UNCHANGED results
    /\ ValidatorLoop(idx + 1, results)
    /\ idx' = idx + 1
    /\ UNCHANGED <<products, requestedVariant, matchingVariants, config, stock, parked>>
    /\ UNCHANGED <<rev, endpoint, webhookUrl, req, draftOrder, invoiceEmailSent>>

\* the try block throws (axios.get rejects on a network error or a 404, or
\* response.data.variant is undefined and reading its inventory_quantity is a
\* TypeError): catch (error) pushes the failure object and the loop goes on
LookupFails ==
    /\ pc = "lookup_wait"
    /\ outcomes' = Append(outcomes, [ok |-> FALSE])
    /\ results' = Append(results, FailureResult(rev, req.line_items[idx]))
    /\ ValidatorLoop(idx + 1, Append(results, FailureResult(rev, req.line_items[idx])))
    /\ idx' = idx + 1
    /\ UNCHANGED <<products, requestedVariant, matchingVariants, config, stock, parked>>
    /\ UNCHANGED <<rev, endpoint, webhookUrl, req, draftOrder, invoiceEmailSent>>

\* ---- order creation -----------------------------------------------------------
OrderNumbers == {1001, 1002}

\* response.data.draft_order / response.data.order of the commerce API
CreatedOrder(n, payload) ==
    [name |-> n,
     order_number |-> n,
     id |-> 10 * n,
     total_price |-> "35.00",
     currency |-> "USD",
     invoice_url |-> "https://shop.example/invoice",
     expires_at |-> Undefined,
     line_items |-> [k \in 1..Len(payload.line_items) |->
                       [title |-> TitleOf(payload.line_items[k].variant_id),
                        quantity |-> payload.line_items[k].quantity,
                        price |-> PriceOf(payload.line_items[k].variant_id)]]]

\* how the creation post can fail
CreateFailures == {"network_error", "401", "403", "404", "422", "500"}

\* the Error thrown by createShopifyDraftOrder / createShopifyOrder
CreateErrorMessage(r, ep, failure) ==
    IF ep = "/place-order-direct" THEN "Failed to create Shopify order"
    ELSE IF r = "part_000" THEN
        CASE failure = "401" -> "Authentication failed - check your Shopify access token"
          [] failure = "403" -> "Permission denied - check your Shopify API permissions"
          [] failure = "404" -> "Store not found - check your shop domain"
          [] failure = "422" -> "Validation error"
          [] OTHER -> "Failed to create Shopify draft order: "
    ELSE "Failed to create Shopify draft order"

\* faulty variant: the catch block of /place-order-direct copied to /place-order
ErrorResponse_directCode(r, ep, errorType, errorMessage, body) ==
    [success |-> FALSE,
     error |-> "order_creation_failed",
     message |-> [text |-> "I apologize, but I encountered an error"],
     call_id |-> Get(body, "call_id")]

\* the response of the outer catch block
ErrorResponse(r, ep, errorType, errorMessage, body) ==
    LET base ==
          [success |-> FALSE,
           error |-> IF ep = "/place-order-direct" THEN "order_creation_failed"
                                                    ELSE "draft_order_creation_failed",
           message |-> [text |-> "I apologize, but I encountered an error"],
           call_id |-> Get(body, "call_id")]
    IN  IF r = "index.js"
          THEN base
          ELSE ("debug_info" :> [error_type |-> errorType, error_message |-> errorMessage]) @@ base

\* reduce((sum, item) => sum + item.quantity, 0)
RECURSIVE SumQuantity(_)
SumQuantity(items) ==
    IF Len(items) = 0 THEN 0 ELSE items[1].quantity + SumQuantity(Tail(items))

\* line_items.map(item => ({title, quantity, price}))
ResponseItems(items) ==
    [k \in 1..Len(items) |->
        [title |-> items[k].title, quantity |-> items[k].quantity, price |-> items[k].price]]

\* the success response of /place-order
DraftOrderResponse(r, order, emailSent, body) ==
    LET c == CustomerData(r, body)
        itemCount == SumQuantity(order.line_items)
    IN  IF r = "index.js"
          THEN [success |-> TRUE,
                message |-> [text |-> "Perfect! I've prepared your order",
                             order_number |-> order.name,
                             itemCount |-> itemCount,
                             totalAmount |-> order.total_price,
                             payment |-> "I'm sending a secure payment link",
                             email |-> body.customer_info.email],
                draft_order |-> [order_number |-> order.name,
                                 draft_order_id |-> order.id,
                                 total_price |-> order.total_price,
                                 currency |-> order.currency,
                                 customer_email |-> body.customer_info.email,
                                 line_items |-> ResponseItems(order.line_items)],
                call_id |-> Get(body, "call_id")]
          ELSE [success |-> TRUE,
                message |-> [text |-> "Perfect! I've prepared your order",
                             order_number |-> order.name,
                             itemCount |-> itemCount,
                             totalAmount |-> order.total_price,
                             payment |-> IF emailSent
                                           THEN "I'm sending a secure payment link"
                                           ELSE "You can find the payment link in your order details",
                             email |-> IF emailSent THEN c.email ELSE Undefined],
                draft_order |-> [order_number |-> order.name,
                                 draft_order_id |-> order.id,
                                 total_price |-> order.total_price,
                                 currency |-> order.currency,
                                 customer_email |-> c.email,
                                 customer_name |-> <<c.first_name, c.last_name>>,
                                 payment_url |-> order.invoice_url,
                                 expires_at |-> order.expires_at,
                                 invoice_email_sent |-> emailSent,
                                 line_items |-> ResponseItems(order.line_items)],
                call_id |-> Get(body, "call_id")]

\* the success response of /place-order-direct
OrderResponse(order, body) ==
    [success |-> TRUE,
     message |-> [text |-> "Perfect! I've successfully placed your order",
                  order_number |-> order.order_number,
                  itemCount |-> SumQuantity(order.line_items),
                  totalAmount |-> order.total_price,
                  email |-> body.customer_info.email],
     order |-> [order_number |-> order.order_number,
                order_id |-> order.id,
                total_price |-> order.total_price,
                currency |-> order.currency,
                customer_email |-> body.customer_info.email,
                line_items |-> ResponseItems(order.line_items)],
     call_id |-> Get(body, "call_id")]

\* faulty variant: the backend creates the order only when it holds the stock
CreateSucceeds_checksStock ==
    /\ pc = "create_wait"
    /\ \A k \in 1..Len(req.line_items) :
          Has(stock, req.line_items[k].variant_id) =>
              stock[req.line_items[k].variant_id] >= req.line_items[k].quantity
    /\ \E n \in OrderNumbers :
         LET order == CreatedOrder(n, calls[Len(calls)].payload) IN
          /\ draftOrder' = order
          /\ outcomes' = Append(outcomes, [ok |-> TRUE, order |-> order])
          /\ IF endpoint = "/place-order-direct"
               THEN NotifyAndRespond(OrderResponse(order, req), "order_success")
               ELSE /\ calls' = Append(calls, [kind |-> "send_invoice",
                                               draft_order_id |-> order.id])
                    /\ pc' = "invoice_wait"
                    /\ UNCHANGED <<response, sent>>
    /\ UNCHANGED <<products, requestedVariant, matchingVariants, config, stock, parked>>
    /\ UNCHANGED <<rev, endpoint, webhookUrl, req, idx, results, invoiceEmailSent>>

\* the creation post resolves with the created order
CreateSucceeds ==
    /\ pc = "create_wait"
    /\ \E n \in OrderNumbers :
         LET order == CreatedOrder(n, calls[Len(calls)].payload) IN
          /\ draftOrder' = order
          /\ outcomes' = Append(outcomes, [ok |-> TRUE, order |-> order])
          /\ IF endpoint = "/place-order-direct"
               THEN NotifyAndRespond(OrderResponse(order, req), "order_success")
               ELSE /\ calls' = Append(calls, [kind |-> "send_invoice",
                                               draft_order_id |-> order.id])
                    /\ pc' = "invoice_wait"
                    /\ UNCHANGED <<response, sent>>
    /\ UNCHANGED <<products, requestedVariant, matchingVariants, config, stock, parked>>
    /\ UNCHANGED <<rev, endpoint, webhookUrl, req, idx, results, invoiceEmailSent>>

\* faulty variant: a rejected creation post is reported to the webhook
CreateFails_notifies ==
    /\ pc = "create_wait"
    /\ \E failure \in CreateFailures :
          /\ outcomes' = Append(outcomes, [ok |-> FALSE, failure |-> failure])
          /\ NotifyAndRespond(ErrorResponse(rev, endpoint, "Error",
                                  CreateErrorMessage(rev, endpoint, failure), req),
                              "order_failed")
    /\ UNCHANGED <<products, requestedVariant, matchingVariants, config, stock, parked>>
    /\ UNCHANGED <<rev, endpoint, webhookUrl, req, idx, results,
                   draftOrder, invoiceEmailSent>>

\* faulty variant: a rejected creation post is issued a second time
CreateFails_retry ==
    /\ pc = "create_wait"
    /\ \E failure \in CreateFailures :
          /\ outcomes' = Append(outcomes, [ok |-> FALSE, failure |-> failure])
          /\ IF Len(SelectSeq(calls, LAMBDA c : c.kind = calls[Len(calls)].kind)) = 1
               THEN /\ calls' = Append(calls, calls[Len(calls)])
                    /\ UNCHANGED <<pc, sent>>
               ELSE /\ Respond(500, ErrorResponse(rev, endpoint, "Error",
                                        CreateErrorMessage(rev, endpoint, failure), req))
                    /\ UNCHANGED calls
    /\ UNCHANGED <<products, requestedVariant, matchingVariants, config, stock, parked>>
    /\ UNCHANGED <<rev, endpoint, webhookUrl, req, idx, results,
                   draftOrder, invoiceEmailSent, response>>

\* the creation post rejects: the helper throws and the outer catch answers
CreateFails ==
    /\ pc = "create_wait"
    /\ \E failure \in CreateFailures :
          /\ outcomes' = Append(outcomes, [ok |-> FALSE, failure |-> failure])
          /\ Respond(500, ErrorResponse(rev, endpoint, "Error",
                                        CreateErrorMessage(rev, endpoint, failure), req))
    /\ UNCHANGED <<products, requestedVariant, matchingVariants, config, stock, parked>>
    /\ UNCHANGED <<rev, endpoint, webhookUrl, req, idx, results,
                   draftOrder, invoiceEmailSent, response, calls>>

\* faulty variant: the TypeError escapes the handler and nothing is sent
CreateMalformed_unanswered ==
    /\ pc = "create_wait"
    /\ outcomes' = Append(outcomes, [ok |-> FALSE, failure |-> "malformed_response"])
    /\ pc' = "done"
    /\ UNCHANGED <<products, requestedVariant, matchingVariants, config, stock, parked>>
    /\ UNCHANGED <<rev, endpoint, webhookUrl, req, idx, results,
                   draftOrder, invoiceEmailSent, response, calls, sent>>

\* the creation post resolves without a draft_order / order in its body: the
\* helper returns undefined and the handler's first read of it throws TypeError
CreateMalformed ==
    /\ pc = "create_wait"
    /\ outcomes' = Append(outcomes, [ok |-> FALSE, failure |-> "malformed_response"])
    /\ Respond(500, ErrorResponse(rev, endpoint, "TypeError",
                                  "Cannot read properties of undefined", req))
    /\ UNCHANGED <<products, requestedVariant, matchingVariants, config, stock, parked>>
    /\ UNCHANGED <<rev, endpoint, webhookUrl, req, idx, results,
                   draftOrder, invoiceEmailSent, response, calls>>

\* ---- invoice and webhook --------------------------------------------------------
\* value of the flag after the try/catch around sendDraftOrderInvoice
InvoiceFlag(r, ok) == IF r = "index.js" THEN FALSE ELSE ok

\* sendDraftOrderInvoice resolves or throws; either way the handler goes on
InvoiceSettles ==
    /\ pc = "invoice_wait"
    /\ \E ok \in BOOLEAN :
          /\ outcomes' = Append(outcomes, [ok |-> ok])
          /\ invoiceEmailSent' = InvoiceFlag(rev, ok)
          /\ NotifyAndRespond(DraftOrderResponse(rev, draftOrder, InvoiceFlag(rev, ok), req),
                              "draft_order_created")
    /\ UNCHANGED <<products, requestedVariant, matchingVariants, config, stock, parked>>
    /\ UNCHANGED <<rev, endpoint, webhookUrl, req, idx, results, draftOrder>>

\* how the awaited webhook post can end
WebhookOutcomes(call) ==
    {"ok", "error"} \cup (IF call.timeout > 0 THEN {"timeout"} ELSE {})

\* faulty variant: a webhook error is not caught and reaches the outer catch
WebhookSettles_failOnError ==
    /\ pc = "webhook_wait"
    /\ \E o \in WebhookOutcomes(calls[Len(calls)]) :
          /\ outcomes' = Append(outcomes, [ok |-> o = "ok", outcome |-> o])
          /\ IF o = "ok"
               THEN Respond(200, response)
               ELSE Respond(500, ErrorResponse(rev, endpoint, "Error", "webhook failed", req))
    /\ UNCHANGED <<products, requestedVariant, matchingVariants, config, stock, parked>>
    /\ UNCHANGED <<rev, endpoint, webhookUrl, req, idx, results,
                   draftOrder, invoiceEmailSent, response, calls>>

\* the webhook post resolves or is caught by catch (makeError); then res.json(response)
WebhookSettles ==
    /\ pc = "webhook_wait"
    /\ \E o \in WebhookOutcomes(calls[Len(calls)]) :
          outcomes' = Append(outcomes, [ok |-> o = "ok", outcome |-> o])
    /\ Respond(200, response)
    /\ UNCHANGED <<products, requestedVariant, matchingVariants, config, stock, parked>>
    /\ UNCHANGED <<rev, endpoint, webhookUrl, req, idx, results,
                   draftOrder, invoiceEmailSent, response, calls>>

Next ==
    \/ HandleRequest
    \/ LookupSucceeds
    \/ LookupFails
    \/ CreateSucceeds
    \/ CreateFails
    \/ CreateMalformed
    \/ InvoiceSettles
    \/ WebhookSettles

Spec == Init /\ [][Next]_vars

\* the order handlers when every outbound call eventually returns or fails
\* and the event loop runs every continuation that is ready
SpecLive == Init /\ [][Next]_vars /\ WF_vars(Next)

\* the same handlers, fed the requests of OrderRequests
SpecOrder == InitOrder /\ [][Next]_vars

\* ---- process start ----------------------------------------------------------------
\* requests with one line item of the tracked variant
TrackedVariant == 1
RaceRequests ==
    {[customer_info |-> [email |-> Email],
      line_items |-> <<[variant_id |-> TrackedVariant, quantity |-> q]>>] : q \in Quantities}

\* the process is launched with any environment; a request is waiting
InitStart ==
    /\ \E d \in Deployments : rev = d[1] /\ endpoint = d[2]
    /\ webhookUrl \in BOOLEAN
    /\ config \in Configs
    /\ req \in RaceRequests \cup {NoFields}
    /\ pc = "boot"
    /\ idx = 1
    /\ results = <<>>
    /\ outcomes = <<>>
    /\ draftOrder = NoFields
    /\ invoiceEmailSent = FALSE
    /\ response = NoFields
    /\ calls = <<>>
    /\ sent = <<>>
    /\ products = <<>>
    /\ requestedVariant = <<>>
    /\ matchingVariants = <<>>
    /\ stock = <<>>
    /\ parked = NoFields

\* the module body up to app.listen: index.js and part_002 exit when a
\* credential is missing, part_000 and part_001 have no such test
Startup ==
    /\ pc = "boot"
    /\ IF /\ rev \in {"index.js", "part_002"}
          /\ Falsy(config.shop_domain) \/ Falsy(config.access_token)
         THEN pc' = "exited"
         ELSE pc' = "start"
    /\ UNCHANGED <<rev, endpoint, webhookUrl, req, idx, results, outcomes, draftOrder,
                   invoiceEmailSent, response, calls, sent, products, requestedVariant,
                   matchingVariants, config, stock, parked>>

NextStart ==
    \/ Startup
    \/ Next

SpecStart == InitStart /\ [][NextStart]_vars

\* ---- two requests in flight ---------------------------------------------------------
\* the locals of the handler serving a request
Locals ==
    [req |-> req, pc |-> pc, idx |-> idx, results |-> results, outcomes |-> outcomes,
     draftOrder |-> draftOrder, invoiceEmailSent |-> invoiceEmailSent,
     response |-> response, calls |-> calls, sent |-> sent]

\* two /place-order requests have arrived; the backend holds some stock of
\* the variant
InitRace ==
    /\ rev \in Revisions
    /\ endpoint = "/place-order"
    /\ webhookUrl \in BOOLEAN
    /\ config = FullConfig
    /\ req \in RaceRequests
    /\ pc = "start"
    /\ idx = 1
    /\ results = <<>>
    /\ outcomes = <<>>
    /\ draftOrder = NoFields
    /\ invoiceEmailSent = FALSE
    /\ response = NoFields
    /\ calls = <<>>
    /\ sent = <<>>
    /\ products = <<>>
    /\ requestedVariant = <<>>
    /\ matchingVariants = <<>>
    /\ stock \in [{TrackedVariant} -> Stocks]
    /\ \E other \in RaceRequests :
          parked = [req |-> other, pc |-> "start", idx |-> 1, results |-> <<>>,
                    outcomes |-> <<>>, draftOrder |-> NoFields, invoiceEmailSent |-> FALSE,
                    response |-> NoFields, calls |-> <<>>, sent |-> <<>>]

\* faulty variant: results is a module-level array, common to the two handlers
Switch_sharedResults ==
    /\ Has(parked, "pc")
    /\ parked.pc # "done"
    /\ parked' = Locals
    /\ req' = parked.req
    /\ pc' = parked.pc
    /\ idx' = parked.idx
    /\ outcomes' = parked.outcomes
    /\ draftOrder' = parked.draftOrder
    /\ invoiceEmailSent' = parked.invoiceEmailSent
    /\ response' = parked.response
    /\ calls' = parked.calls
    /\ sent' = parked.sent
    /\ UNCHANGED <<rev, endpoint, webhookUrl, results, products, requestedVariant,
                   matchingVariants, config, stock>>

\* at an await the event loop resumes the other handler: each handler keeps
\* its own locals (const / let inside app.post and the helpers), the
\* module-level constants are common
Switch ==
    /\ Has(parked, "pc")
    /\ parked.pc # "done"
    /\ parked' = Locals
    /\ req' = parked.req
    /\ pc' = parked.pc
    /\ idx' = parked.idx
    /\ results' = parked.results
    /\ outcomes' = parked.outcomes
    /\ draftOrder' = parked.draftOrder
    /\ invoiceEmailSent' = parked.invoiceEmailSent
    /\ response' = parked.response
    /\ calls' = parked.calls
    /\ sent' = parked.sent
    /\ UNCHANGED <<rev, endpoint, webhookUrl, products, requestedVariant,
                   matchingVariants, config, stock>>

\* the backend's stock of a tracked variant changes (a sale on another channel,
\* a restock): nothing in the service holds or reserves it
StockChanges ==
    /\ \E v \in DOMAIN stock, s \in Stocks :
          /\ s # stock[v]
          /\ stock' = [stock EXCEPT ![v] = s]
    /\ UNCHANGED <<rev, endpoint, webhookUrl, req, pc, idx, results, outcomes, draftOrder,
                   invoiceEmailSent, response, calls, sent, products, requestedVariant,
                   matchingVariants, config, parked>>

NextRace ==
    \/ Next
    \/ Switch
    \/ StockChanges

SpecRace == InitRace /\ [][NextRace]_vars

\* ==== findBestVariant ============================================================
\* A text is a sequence of one-character strings, so that toLowerCase, includes
\* and split act on its characters; the empty text is <<>>.
Space == <<" ">>
Slash == <<" ", "/", " ">>
DefaultName == <<"D", "e", "f", "a", "u", "l", "t">>

\* String.prototype.toLowerCase, on the letters the catalog and the requests use
LowerChar(c) ==
    CASE c = "B" -> "b"
      [] c = "L" -> "l"
      [] c = "R" -> "r"
      [] c = "S" -> "s"
      [] OTHER -> c
ToLowerCase(s) == [i \in 1..Len(s) |-> LowerChar(s[i])]

\* s.includes(t): t occurs in s as a contiguous run; the empty text occurs in
\* every text
Includes(s, t) == \E i \in 0..(Len(s) - Len(t)) : SubSeq(s, i + 1, i + Len(t)) = t

\* parts.join(sep)
RECURSIVE Join(_, _)
Join(parts, sep) ==
    IF Len(parts) = 0 THEN <<>>
    ELSE IF Len(parts) = 1 THEN parts[1]
    ELSE parts[1] \o sep \o Join(Tail(parts), sep)

\* s.split(/\s+/): the pieces between the runs of white space; a run at either
\* end leaves an empty piece there, and the empty text gives one empty piece
RECURSIVE Split(_)
Split(s) ==
    IF \A i \in 1..Len(s) : s[i] # " "
      THEN <<s>>
      ELSE LET i == CHOOSE i \in 1..Len(s) :
                        s[i] = " " /\ \A k \in 1..(i - 1) : s[k] # " "
               j == CHOOSE j \in i..Len(s) :
                        /\ \A k \in i..j : s[k] = " "
                        /\ j = Len(s) \/ s[j + 1] # " "
           IN  <<SubSeq(s, 1, i - 1)>> \o Split(SubSeq(s, j + 1, Len(s)))

\* const variantTitle = variant.title || ''
VariantTitle(variant) == IF Has(variant, "title") THEN variant.title ELSE <<>>

\* [variant.option1, variant.option2, variant.option3].filter(Boolean).join(' / ')
VariantOptions(variant) ==
    LET given == SelectSeq(<<"option1", "option2", "option3">>,
                           LAMBDA key : Has(variant, key) /\ variant[key] # <<>>)
    IN  Join([k \in 1..Len(given) |-> variant[given[k]]], Slash)

\* a match score is a JavaScript number; it is kept as the exact fraction
\* num / den, since (matches.length / requestedWords.length) * 50 need not be
\* an integer
Number(n) == [num |-> n, den |-> 1]
Greater(a, b) == a.num * b.den > b.num * a.den

\* faulty variant: the word rule scores out of 100 instead of 50
MatchScore_wordsOutOf100(variantTitle, variantOptions, requested) ==
    LET requestedLower == ToLowerCase(requested)
        variantLower == ToLowerCase(variantTitle)
        optionsLower == ToLowerCase(variantOptions)
    IN  IF variantLower = requestedLower \/ optionsLower = requestedLower
          THEN Number(100)
        ELSE IF Includes(variantLower, requestedLower) \/ Includes(optionsLower, requestedLower)
          THEN Number(75)
        ELSE LET requestedWords == Split(requestedLower)
                 variantWords == Split(variantLower \o Space \o optionsLower)
                 matches == SelectSeq(requestedWords, LAMBDA word :
                                \E k \in 1..Len(variantWords) :
                                    \/ Includes(variantWords[k], word)
                                    \/ Includes(word, variantWords[k]))
             IN  [num |-> Len(matches) * 100, den |-> Len(requestedWords)]

\* faulty variant: empty words of the candidate are dropped before the overlap
\* is counted
MatchScore_skipEmptyWords(variantTitle, variantOptions, requested) ==
    LET requestedLower == ToLowerCase(requested)
        variantLower == ToLowerCase(variantTitle)
        optionsLower == ToLowerCase(variantOptions)
    IN  IF variantLower = requestedLower \/ optionsLower = requestedLower
          THEN Number(100)
        ELSE IF Includes(variantLower, requestedLower) \/ Includes(optionsLower, requestedLower)
          THEN Number(75)
        ELSE LET requestedWords == Split(requestedLower)
                 variantWords == SelectSeq(Split(variantLower \o Space \o optionsLower),
                                           LAMBDA w : w # <<>>)
                 matches == SelectSeq(requestedWords, LAMBDA word :
                                \E k \in 1..Len(variantWords) :
                                    \/ Includes(variantWords[k], word)
                                    \/ Includes(word, variantWords[k]))
             IN  [num |-> Len(matches) * 50, den |-> Len(requestedWords)]

\* let matchScore = 0; ... the three rules of the scoring
MatchScore(variantTitle, variantOptions, requested) ==
    LET requestedLower == ToLowerCase(requested)
        variantLower == ToLowerCase(variantTitle)
        optionsLower == ToLowerCase(variantOptions)
    IN  IF variantLower = requestedLower \/ optionsLower = requestedLower
          THEN Number(100)
        ELSE IF Includes(variantLower, requestedLower) \/ Includes(optionsLower, requestedLower)
          THEN Number(75)
        ELSE LET requestedWords == Split(requestedLower)
                 variantWords == Split(variantLower \o Space \o optionsLower)
                 matches == SelectSeq(requestedWords, LAMBDA word :
                                \E k \in 1..Len(variantWords) :
                                    \/ Includes(variantWords[k], word)
                                    \/ Includes(word, variantWords[k]))
             IN  [num |-> Len(matches) * 50, den |-> Len(requestedWords)]

\* the object pushed to results for one variant
MatchEntry(product, variant, requested) ==
    LET variantTitle == VariantTitle(variant)
        variantOptions == VariantOptions(variant)
    IN  [product_title |-> product.title,
         variant_id |-> variant.id,
         variant_title |-> variantTitle,
         variant_options |-> variantOptions,
         inventory_quantity |-> IF Has(variant, "inventory_quantity")
                                  THEN variant.inventory_quantity ELSE 0,
         available |-> IF Has(variant, "available") THEN variant.available ELSE FALSE,
         price |-> Get(variant, "price"),
         match_score |-> MatchScore(variantTitle, variantOptions, requested),
         display_name |-> IF variantOptions # <<>> THEN variantOptions
                          ELSE IF variantTitle # <<>> THEN variantTitle
                          ELSE DefaultName]

\* products.forEach(product => product.variants.forEach(...)): the entries of
\* all variants in catalog order, products without variants skipped
VariantsOf(product) == IF Has(product, "variants") THEN product.variants ELSE <<>>
RECURSIVE MatchEntries(_, _)
MatchEntries(prods, requested) ==
    IF Len(prods) = 0 THEN <<>>
    ELSE [k \in 1..Len(VariantsOf(prods[1])) |->
              MatchEntry(prods[1], VariantsOf(prods[1])[k], requested)]
         \o MatchEntries(Tail(prods), requested)

\* faulty variant: the results are returned in catalog order
SortByScore_unsorted(entries) == entries

\* results.sort((a, b) => b.match_score - a.match_score): Array.prototype.sort
\* is stable, so entries of equal score keep their catalog order
RECURSIVE SortByScore(_)
SortByScore(entries) ==
    IF Len(entries) = 0 THEN <<>>
    ELSE LET sorted == SortByScore(SubSeq(entries, 1, Len(entries) - 1))
             e == entries[Len(entries)]
             n == Cardinality({k \in 1..Len(sorted) :
                                  ~Greater(e.match_score, sorted[k].match_score)})
         IN  SubSeq(sorted, 1, n) \o <<e>> \o SubSeq(sorted, n + 1, Len(sorted))

\* faulty variant: entries of score 0 are pushed as well
FindBestVariant_keepAll(prods, requested) ==
    SortByScore(MatchEntries(prods, requested))

\* function findBestVariant(products, requestedVariant)
FindBestVariant(prods, requested) ==
    SortByScore(SelectSeq(MatchEntries(prods, requested),
                          LAMBDA e : e.match_score.num > 0))

\* ---- the catalogs and requests findBestVariant is applied to -----------------
\* the variants of the shop, as response.data.products lists them
VariantPool ==
    { [id |-> 1, title |-> <<"R", "e", "d", " ", "/", " ", "S", "m", "a", "l", "l">>,
       option1 |-> <<"R", "e", "d">>, option2 |-> <<"S", "m", "a", "l", "l">>,
       inventory_quantity |-> 3, price |-> "10.00"],
      [id |-> 2, title |-> <<"B", "l", "u", "e", " ", "/", " ", "S", "m", "a", "l", "l">>,
       option1 |-> <<"B", "l", "u", "e">>, option2 |-> <<"S", "m", "a", "l", "l">>,
       inventory_quantity |-> 0, price |-> "25.00"],
      [id |-> 3, title |-> <<"R", "e", "d">>, option1 |-> <<>>,
       inventory_quantity |-> 1, price |-> "12.00"],
      [id |-> 4, option1 |-> <<"L", "a", "r", "g", "e">>, option3 |-> <<"B", "l", "u", "e">>,
       price |-> "30.00"] }
\* the ids of the variants of a list
IdsOf(variants) == {variants[k].id : k \in 1..Len(variants)}
VariantLists ==
    {l \in UNION {[1..n -> VariantPool] : n \in 0..MaxVariants} :
        Cardinality(IdsOf(l)) = Len(l)}
Products ==
    {[title |-> "Shirt"]} \cup {[title |-> "Shirt", variants |-> l] : l \in VariantLists}
\* product lists in which no variant occurs twice
Catalogs ==
    {c \in UNION {[1..n -> Products] : n \in 0..MaxProducts} :
        \A i, j \in 1..Len(c) :
            i < j => IdsOf(VariantsOf(c[i])) \cap IdsOf(VariantsOf(c[j])) = {}}
RequestedVariants ==
    { <<>>,
      <<"r", "e", "d">>,
      <<"R", "e", "d", " ", "/", " ", "S", "m", "a", "l", "l">>,
      <<"s", "m", "a", "l", "l">>,
      <<"s", "m", "a", "l", "l", " ", "r", "e", "d">>,
      <<"s", "m", "a", "l", "l", " ", " ", "g", "r", "e", "e", "n">>,
      <<"b", "l", "u", "e", " ", "x", "l", " ", "r", "e", "d">>,
      <<" ", "l", "a", "r", "g", "e">>,
      <<"g", "r", "e", "e", "n">>,
      <<"/">> }

\* findBestVariant is about to be called on a catalog and a requested text
InitMatch ==
    /\ rev = "index.js"
    /\ endpoint = "/check-inventory"
    /\ webhookUrl = FALSE
    /\ req = NoFields
    /\ pc = "match"
    /\ idx = 1
    /\ results = <<>>
    /\ outcomes = <<>>
    /\ draftOrder = NoFields
    /\ invoiceEmailSent = FALSE
    /\ response = NoFields
    /\ calls = <<>>
    /\ sent = <<>>
    /\ products \in Catalogs
    /\ requestedVariant \in RequestedVariants
    /\ matchingVariants = <<>>
    /\ config = FullConfig
    /\ stock = <<>>
    /\ parked = NoFields

\* const matchingVariants = findBestVariant(products, ...)
FindBestVariantCall ==
    /\ pc = "match"
    /\ matchingVariants' = FindBestVariant(products, requestedVariant)
    /\ pc' = "matched"
    /\ UNCHANGED <<config, stock, parked>>
    /\ UNCHANGED <<rev, endpoint, webhookUrl, req, idx, results, outcomes, draftOrder,
                   invoiceEmailSent, response, calls, sent, products, requestedVariant>>

NextMatch == FindBestVariantCall

SpecMatch == InitMatch /\ [][NextMatch]_vars

\* ==== /check-inventory (index.js, part_002) =======================================
\* const { product_name, variant_details, call_id } = req.body
CheckRequests ==
    { NoFields,
      [product_name |-> ""],
      [product_name |-> "Shirt"],
      [product_name |-> "Shirt", variant_details |-> <<"s", "m", "a", "l", "l">>],
      [product_name |-> "Shirt", variant_details |-> <<"R", "e", "d">>],
      [product_name |-> "Shirt", variant_details |-> <<"g", "r", "e", "e", "n", " ", "x", "l">>] }
\* what searchShopifyProducts can return: response.data.products || []
SearchReplies == {c \in Catalogs : Len(c) <= 1}

InitCheck ==
    /\ rev \in {"index.js", "part_002"}
    /\ endpoint = "/check-inventory"
    /\ webhookUrl \in BOOLEAN
    /\ req \in CheckRequests
    /\ pc = "start"
    /\ idx = 1
    /\ results = <<>>
    /\ outcomes = <<>>
    /\ draftOrder = NoFields
    /\ invoiceEmailSent = FALSE
    /\ response = NoFields
    /\ calls = <<>>
    /\ sent = <<>>
    /\ products = <<>>
    /\ requestedVariant = <<>>
    /\ matchingVariants = <<>>
    /\ config = FullConfig
    /\ stock = <<>>
    /\ parked = NoFields

\* variant_details || ''
VariantDetails(body) ==
    IF Has(body, "variant_details") THEN body.variant_details ELSE <<>>

\* the response of the branch products.length === 0
NotFoundResponse(body) ==
    [success |-> TRUE,
     found |-> FALSE,
     message |-> [text |-> "Sorry, I couldn't find any products matching",
                  product_name |-> body.product_name],
     product_name |-> body.product_name,
     variant_details |-> Get(body, "variant_details"),
     call_id |-> Get(body, "call_id")]

\* seq.slice(from, to), both counted from 0
Slice(seq, from, to) ==
    SubSeq(seq, from + 1, IF to < Len(seq) THEN to ELSE Len(seq))
InStock(seq) ==
    SelectSeq(seq, LAMBDA v : Has(v, "inventory_quantity") /\ v.inventory_quantity > 0)
\* `${display_name} (${inventory_quantity} available)` of each listed variant
Listing(seq) ==
    [k \in 1..Len(seq) |->
        [display_name |-> IF Has(seq[k], "display_name") THEN seq[k].display_name
                          ELSE IF VariantOptions(seq[k]) # <<>> THEN VariantOptions(seq[k])
                          ELSE IF VariantTitle(seq[k]) # <<>> THEN VariantTitle(seq[k])
                          ELSE DefaultName,
         inventory_quantity |-> seq[k].inventory_quantity]]

\* responseMessage: which sentence is said and the values it prints
ResponseMessage(prods, matching, body) ==
    IF Len(matching) > 0
      THEN LET bestMatch == matching[1] IN
           IF bestMatch.inventory_quantity > 0
             THEN [text |-> "Great news! ... is in stock.",
                   product_title |-> bestMatch.product_title,
                   display_name |-> bestMatch.display_name,
                   quantity |-> bestMatch.inventory_quantity,
                   price |-> bestMatch.price]
             ELSE [text |-> "I found ..., but it's currently out of stock.",
                   product_title |-> bestMatch.product_title,
                   display_name |-> bestMatch.display_name,
                   similar_in_stock |-> Listing(InStock(Slice(matching, 1, 4)))]
      ELSE [text |-> "I found products ... but couldn't find the specific variant",
            product_name |-> body.product_name,
            variant_details |-> Get(body, "variant_details"),
            in_stock |-> Listing(Slice(InStock(VariantsOf(prods[1])), 0, 3))]

\* the response of the branch that found products
FoundResponse(prods, matching, body) ==
    [success |-> TRUE,
     found |-> TRUE,
     message |-> ResponseMessage(prods, matching, body),
     product_name |-> body.product_name,
     variant_details |-> Get(body, "variant_details"),
     best_match |-> IF Len(matching) > 0 THEN matching[1] ELSE Undefined,
     alternatives |-> Slice(matching, 1, 3),
     call_id |-> Get(body, "call_id")]

\* app.post('/check-inventory'): from the arrival of the request to the await
\* of searchShopifyProducts
HandleCheckInventory ==
    /\ pc = "start"
    /\ endpoint = "/check-inventory"
    /\ IF Falsy(Get(req, "product_name"))
         THEN /\ Respond(400, [success |-> FALSE, error |-> "Product name is required"])
              /\ UNCHANGED calls
         ELSE /\ calls' = Append(calls, [kind |-> "search", query |-> req.product_name])
              /\ pc' = "search_wait"
              /\ UNCHANGED sent
    /\ UNCHANGED <<config, stock, parked>>
    /\ UNCHANGED <<rev, endpoint, webhookUrl, req, idx, results, outcomes, draftOrder,
                   invoiceEmailSent, response, products, requestedVariant,
                   matchingVariants>>

\* searchShopifyProducts resolves: the handler matches the variants, builds
\* the response and notifies the webhook
SearchSucceeds ==
    /\ pc = "search_wait"
    /\ \E prods \in SearchReplies :
          /\ outcomes' = Append(outcomes, [ok |-> TRUE, products |-> prods])
          /\ products' = prods
          /\ IF Len(prods) = 0
               THEN /\ NotifyAndRespond(NotFoundResponse(req), "inventory_check")
                    /\ UNCHANGED <<requestedVariant, matchingVariants>>
               ELSE /\ requestedVariant' = VariantDetails(req)
                    /\ matchingVariants' = FindBestVariant(prods, VariantDetails(req))
                    /\ NotifyAndRespond(
                          FoundResponse(prods, FindBestVariant(prods, VariantDetails(req)), req),
                          "inventory_check")
    /\ UNCHANGED <<config, stock, parked>>
    /\ UNCHANGED <<rev, endpoint, webhookUrl, req, idx, results, draftOrder,
                   invoiceEmailSent>>

\* searchShopifyProducts throws 'Failed to search Shopify products': the outer
\* catch answers 500
SearchFails ==
    /\ pc = "search_wait"
    /\ outcomes' = Append(outcomes, [ok |-> FALSE])
    /\ Respond(500, [success |-> FALSE,
                     error |-> "Internal server error",
                     message |-> [text |-> "Sorry, I encountered an error while checking inventory."]])
    /\ UNCHANGED <<config, stock, parked>>
    /\ UNCHANGED <<rev, endpoint, webhookUrl, req, idx, results, draftOrder,
                   invoiceEmailSent, response, calls, products, requestedVariant,
                   matchingVariants>>

\* the order handlers and the /check-inventory handler together
InitAll == Init \/ InitCheck

NextAll ==
    \/ HandleRequest
    \/ LookupSucceeds
    \/ LookupFails
    \/ CreateSucceeds
    \/ CreateFails
    \/ CreateMalformed
    \/ InvoiceSettles
    \/ WebhookSettles
    \/ HandleCheckInventory
    \/ SearchSucceeds
    \/ SearchFails

SpecAll == InitAll /\ [][NextAll]_vars

\* ==== properties =================================================================
Items == IF Has(req, "line_items") THEN req.line_items ELSE <<>>
CallsOfKind(kinds) == SelectSeq(calls, LAMBDA c : c.kind \in kinds)
LookupCalls == CallsOfKind({"lookup"})
CreationCalls == CallsOfKind({"create_draft_order", "create_order"})
WebhookCalls == CallsOfKind({"webhook"})
\* validateInventoryForOrder has returned to the handler
ValidatorReturned ==
    \/ pc \in {"create_wait", "invoice_wait", "webhook_wait"}
    \/ pc = "done" /\ sent[1].status # 400
\* the i-th lookup was answered with a variant / failed
LookupOk(i) == outcomes[i].ok
StockOf(i) == outcomes[i].variant.inventory_quantity

\* C1: the validator returns exactly one result per line item, and the i-th
\* result carries the variant_id of the i-th item, whatever lookups fail.
C1_OneResultPerItemInOrder ==
    /\ \A i \in 1..Len(results) :
          i <= Len(Items) /\ results[i].variant_id = Items[i].variant_id
    /\ ValidatorReturned => Len(results) = Len(Items)

C1_Witness ==
    /\ ValidatorReturned
    /\ Len(results) = 2
    /\ Items[1].variant_id # Items[2].variant_id
    /\ ~LookupOk(1) /\ LookupOk(2)

\* C2: for every line item whose lookup succeeded, available is true iff the
\* fetched stock is at least the requested quantity, and the result reports
\* the fetched stock.
C2_AvailableIffStockSuffices ==
    \A i \in 1..Len(results) :
        LookupOk(i) =>
            /\ results[i].available = (StockOf(i) >= Items[i].quantity)
            /\ results[i].available_quantity = StockOf(i)

C2_Witness ==
    /\ Len(results) = 2
    /\ LookupOk(1) /\ StockOf(1) = Items[1].quantity /\ results[1].available
    /\ LookupOk(2) /\ StockOf(2) = 0 /\ ~results[2].available

\* C3: for every line item whose lookup failed, the result has available=false,
\* available_quantity=0 and the item's requested_quantity.
C3_FailedLookupResult ==
    \A i \in 1..Len(results) :
        ~LookupOk(i) =>
            /\ results[i].available = FALSE
            /\ Has(results[i], "available_quantity")
            /\ results[i].available_quantity = 0
            /\ Has(results[i], "requested_quantity")
            /\ results[i].requested_quantity = Items[i].quantity

\* C4: a failed or unavailable lookup never aborts the batch: when the validator
\* returns, one lookup per line item has been issued, in order, and each has
\* settled; before it returns the handler has neither answered nor issued any
\* other call.
C4_NoShortCircuit ==
    LET lookups == LookupCalls IN
    /\ ValidatorReturned =>
          /\ Len(lookups) = Len(Items)
          /\ \A i \in 1..Len(Items) : lookups[i].variant_id = Items[i].variant_id
          /\ Len(outcomes) >= Len(Items)
    /\ pc = "lookup_wait" =>
          /\ sent = <<>>
          /\ calls = lookups

C4_Witness ==
    /\ ValidatorReturned
    /\ Len(Items) = 2
    /\ ~LookupOk(1)
    /\ Len(LookupCalls) = 2
    /\ LookupOk(2) /\ StockOf(2) < Items[2].quantity

\* C5: a request without customer_info, without customer email, or with an
\* absent or empty line_items list is answered 400 with the matching error and
\* no outbound call is ever issued for it.
NoCustomerEmail == ~Has(req, "customer_info") \/ ~Has(req.customer_info, "email")
NoLineItems == ~Has(req, "line_items") \/ req.line_items = <<>>
C5_InputErrorNoOutboundCall ==
    (NoCustomerEmail \/ NoLineItems) =>
        /\ calls = <<>>
        /\ pc \in {"start", "done"}
        /\ pc = "done" =>
              /\ Len(sent) = 1
              /\ sent[1].status = 400
              /\ sent[1].body.success = FALSE
              /\ NoCustomerEmail => sent[1].body.error = "Customer email is required"
              /\ (~NoCustomerEmail /\ req.customer_info.email # "") =>
                     sent[1].body.error = "At least one item is required"

C5_Witness ==
    /\ pc = "done"
    /\ ~NoCustomerEmail /\ req.customer_info.email = Email
    /\ Has(req, "line_items") /\ req.line_items = <<>>
    /\ sent[1].status = 400

\* what the rejection must list for line item i, from the request and the
\* replies of the commerce API alone
ExpectedEntry(i) ==
    [variant_id |-> Items[i].variant_id,
     requested_quantity |-> Items[i].quantity,
     available_quantity |-> IF LookupOk(i) THEN StockOf(i) ELSE 0,
     unavailable |-> ~LookupOk(i) \/ StockOf(i) < Items[i].quantity]
ExpectedUnavailable ==
    SelectSeq([i \in 1..Len(Items) |-> ExpectedEntry(i)], LAMBDA e : e.unavailable)

\* C6: when at least one line item is unavailable, /place-order answers 200 with
\* success=false, error 'insufficient_inventory', and unavailable_items lists
\* exactly the unavailable items, in input order, each with its
\* requested_quantity and available_quantity.
C6_RejectionListsUnavailableItems ==
    (endpoint = "/place-order" /\ pc = "done" /\ ValidatorReturned
        /\ Len(ExpectedUnavailable) > 0) =>
        /\ sent[1].status = 200
        /\ sent[1].body.success = FALSE
        /\ sent[1].body.error = "insufficient_inventory"
        /\ LET listed == sent[1].body.unavailable_items IN
            /\ Len(listed) = Len(ExpectedUnavailable)
            /\ \A k \in 1..Len(listed) :
                  /\ listed[k].variant_id = ExpectedUnavailable[k].variant_id
                  /\ Has(listed[k], "requested_quantity")
                  /\ listed[k].requested_quantity = ExpectedUnavailable[k].requested_quantity
                  /\ Has(listed[k], "available_quantity")
                  /\ listed[k].available_quantity = ExpectedUnavailable[k].available_quantity

\* C7: a creation call or an invoice call is issued only if every line item's
\* lookup succeeded with enough stock and every validator result says
\* available=true.
C7_CreateOnlyIfAllAvailable ==
    Len(CallsOfKind({"create_draft_order", "create_order", "send_invoice"})) > 0 =>
        /\ Len(results) = Len(Items)
        /\ \A i \in 1..Len(Items) :
              /\ results[i].available
              /\ LookupOk(i)
              /\ StockOf(i) >= Items[i].quantity

C7_Witness ==
    /\ Len(CreationCalls) = 1
    /\ Len(Items) = 2
    /\ \A i \in 1..2 : results[i].available

\* position in calls of the creation call, 0 when none was issued
CreationIndex ==
    IF \E k \in 1..Len(calls) : calls[k].kind \in {"create_draft_order", "create_order"}
      THEN CHOOSE k \in 1..Len(calls) : calls[k].kind \in {"create_draft_order", "create_order"}
      ELSE 0
CreationSettled == CreationIndex > 0 /\ Len(outcomes) >= CreationIndex
CreationSucceeded == CreationSettled /\ outcomes[CreationIndex].ok
CreationFailed == CreationSettled /\ ~outcomes[CreationIndex].ok
\* sum of the quantities of the first n items
RECURSIVE QuantityOfFirst(_, _)
QuantityOfFirst(items, n) ==
    IF n = 0 THEN 0 ELSE items[n].quantity + QuantityOfFirst(items, n - 1)

\* C8: with a webhook URL configured, a /place-order request whose items are all
\* in stock and whose draft order is created is answered success=true with a
\* message holding the order's number and item count, and exactly one webhook
\* call, tagged 'draft_order_created', is attempted.
C8_SuccessOneWebhook ==
    (endpoint = "/place-order" /\ webhookUrl /\ CreationSucceeded) =>
        /\ Len(WebhookCalls) <= 1
        /\ \A k \in 1..Len(WebhookCalls) : WebhookCalls[k].body.type = "draft_order_created"
        /\ pc = "done" =>
              LET order == outcomes[CreationIndex].order IN
              /\ Len(sent) = 1
              /\ sent[1].body.success = TRUE
              /\ sent[1].body.message.order_number = order.name
              /\ sent[1].body.message.itemCount
                    = QuantityOfFirst(order.line_items, Len(order.line_items))
              /\ Len(WebhookCalls) = 1

C8_Witness ==
    /\ endpoint = "/place-order" /\ webhookUrl /\ CreationSucceeded
    /\ pc = "done"
    /\ Len(Items) = 2
    /\ sent[1].body.message.itemCount = Items[1].quantity + Items[2].quantity
    /\ WebhookCalls[1].body.type = "draft_order_created"

\* C9: when the draft-order creation is unreachable or rejected, /place-order
\* answers 500 with success=false, error 'draft_order_creation_failed' and the
\* generic apology, never a success response.
C9_CreationFailureIs500 ==
    (endpoint = "/place-order" /\ CreationFailed) =>
        /\ pc = "done"
        /\ Len(sent) = 1
        /\ sent[1].status = 500
        /\ sent[1].body.success = FALSE
        /\ sent[1].body.error = "draft_order_creation_failed"
        /\ sent[1].body.message.text = "I apologize, but I encountered an error"

C9_Witness ==
    /\ endpoint = "/place-order" /\ CreationFailed
    /\ outcomes[CreationIndex].failure = "network_error"
    /\ sent[1].status = 500

\* C10: when the draft order was created, /place-order answers success=true
\* whether or not the invoice send failed, and draft_order.invoice_email_sent
\* is true exactly when the invoice send succeeded.
C10_InvoiceFlagRecordsOutcome ==
    (endpoint = "/place-order" /\ CreationSucceeded /\ pc = "done") =>
        /\ sent[1].status = 200
        /\ sent[1].body.success = TRUE
        /\ Has(sent[1].body.draft_order, "invoice_email_sent")
        /\ sent[1].body.draft_order.invoice_email_sent = outcomes[CreationIndex + 1].ok

\* ---- the webhook and the outbound calls -------------------------------------
InvoiceCalls == CallsOfKind({"send_invoice"})
\* a webhook post has been issued and has not settled yet
WebhookOutstanding == pc = "webhook_wait"
\* a webhook post has been issued and has settled with outcome o
WebhookEnded(o) ==
    /\ Len(WebhookCalls) = 1
    /\ Len(outcomes) = Len(calls)
    /\ outcomes[Len(outcomes)].outcome = o
\* the answer the handler owes the caller once validation has passed or
\* rejected and creation has not failed, from the request and the outcomes of
\* the commerce calls alone: no webhook setting, call or outcome is read
ReplyOfCommerceCalls ==
    IF Len(UnavailableItems(results)) > 0
      THEN RejectionResponse(UnavailableItems(results), req)
      ELSE IF endpoint = "/place-order-direct"
      THEN OrderResponse(outcomes[CreationIndex].order, req)
      ELSE DraftOrderResponse(rev, outcomes[CreationIndex].order,
                              InvoiceFlag(rev, outcomes[CreationIndex + 1].ok), req)

\* the answer /check-inventory owes the caller once the product search has
\* succeeded, from the request and the search reply alone
ReplyOfSearch ==
    LET prods == outcomes[1].products IN
    IF Len(prods) = 0
      THEN NotFoundResponse(req)
      ELSE FoundResponse(prods, FindBestVariant(prods, VariantDetails(req)), req)

\* C11: the status and body returned to the caller do not depend on the
\* webhook: whether the webhook call succeeded, failed, timed out or no webhook
\* URL is configured, a request that is not answered 400 or 500 is answered
\* 200 with the body determined by the request and the commerce calls, and a
\* request answered 400 or 500 made no webhook call at all.
C11_WebhookNeverChangesOutcome ==
    pc = "done" =>
        /\ Len(sent) = 1
        /\ IF endpoint = "/check-inventory"
             THEN IF Len(outcomes) > 0 /\ outcomes[1].ok
                    THEN sent[1] = [status |-> 200, body |-> ReplyOfSearch]
                    ELSE sent[1].status \in {400, 500} /\ Len(WebhookCalls) = 0
           ELSE IF ValidatorReturned /\ ~CreationFailed
             THEN sent[1] = [status |-> 200, body |-> ReplyOfCommerceCalls]
             ELSE sent[1].status \in {400, 500} /\ Len(WebhookCalls) = 0

C11_Witness ==
    /\ pc = "done"
    /\ endpoint = "/place-order"
    /\ WebhookEnded("error")
    /\ sent[1].status = 200
    /\ sent[1].body.success = TRUE

\* C12: the response never waits for the webhook: whenever a webhook call is
\* outstanding, the response has already been handed to the caller.
C12_ResponseNeverWaitsForWebhook ==
    WebhookOutstanding => Len(sent) = 1

\* C13: every webhook call, tagged 'order_failed' or 'draft_order_created',
\* is issued with a bounded timeout.
C13_EveryWebhookHasTimeout ==
    \A k \in 1..Len(calls) :
        (calls[k].kind = "webhook"
            /\ calls[k].body.type \in {"order_failed", "draft_order_created"})
        => calls[k].timeout > 0

\* C14: within one request no outbound call is issued twice: the k-th stock
\* lookup is the lookup of the k-th line item, and there is at most one
\* creation call, one invoice call and one webhook call, whatever failed.
C14_NoCallRetried ==
    /\ Len(LookupCalls) <= Len(Items)
    /\ \A k \in 1..Len(LookupCalls) : LookupCalls[k].variant_id = Items[k].variant_id
    /\ Len(CreationCalls) <= 1
    /\ Len(InvoiceCalls) <= 1
    /\ Len(WebhookCalls) <= 1
    /\ Len(calls) <= Len(outcomes) + 1

C14_Witness ==
    /\ pc = "done"
    /\ CreationSucceeded
    /\ Len(InvoiceCalls) = 1
    /\ ~outcomes[CreationIndex + 1].ok
    /\ WebhookEnded("error")
    /\ Len(calls) = Len(Items) + 3

\* C15 as stated: with a webhook URL configured, every response sent (400,
\* rejection, success, 500) has a webhook call carrying a copy of it plus an
\* event-type tag.
C15_EveryResponseNotified ==
    (webhookUrl /\ pc = "done") =>
        \E k \in 1..Len(calls) :
            /\ calls[k].kind = "webhook"
            /\ Has(calls[k].body, "type")
            /\ calls[k].body = ("type" :> calls[k].body.type) @@ sent[1].body

\* C15 amended: with a webhook URL configured, every 200 response of
\* /place-order and /place-order-direct (inventory rejection and success) has
\* exactly one webhook call carrying a copy of it plus an event-type tag, and
\* the 400 and 500 responses are sent without any webhook call.
C15_Every200Notified ==
    (webhookUrl /\ pc = "done") =>
        IF sent[1].status = 200
          THEN /\ Len(WebhookCalls) = 1
               /\ Has(WebhookCalls[1].body, "type")
               /\ WebhookCalls[1].body.type
                    \in {"order_failed", "draft_order_created", "order_success"}
               /\ WebhookCalls[1].body
                    = ("type" :> WebhookCalls[1].body.type) @@ sent[1].body
          ELSE Len(WebhookCalls) = 0

C15_Witness ==
    /\ webhookUrl /\ pc = "done"
    /\ sent[1].status = 200
    /\ sent[1].body.success = FALSE
    /\ WebhookCalls[1].body.type = "order_failed"
    /\ WebhookCalls[1].body.unavailable_items = sent[1].body.unavailable_items

\* ---- the order assembler --------------------------------------------------------
\* the body of the creation call, once it has been issued
CreationPayload == calls[CreationIndex].payload
\* the keys of a line item that JSON.stringify writes: those not undefined
\* (variant_id and quantity are numbers in every request drawn)
ForwardedKeys(item) ==
    {key \in DOMAIN item : key \in {"variant_id", "quantity"} \/ item[key] # Undefined}
Placeholder(key) ==
    CASE key = "address1" -> "Address not provided"
      [] key = "city" -> "City not provided"
      [] key = "province" -> "Province not provided"
      [] key = "country" -> "Country not provided"
      [] key = "zip" -> "Zip not provided"
AddressKeys == {"address1", "city", "province", "country", "zip"}

\* C18: a customer_info without first_name, last_name or phone gives the
\* customer record of the creation call 'Unknown', 'Customer' and '', whatever
\* the shipping and billing addresses hold.
C18_CustomerDefaults ==
    CreationIndex > 0 =>
        LET ci == req.customer_info
            customer == CreationPayload.customer
        IN  /\ Falsy(Get(ci, "first_name")) => customer.first_name = "Unknown"
            /\ Falsy(Get(ci, "last_name")) => customer.last_name = "Customer"
            /\ Falsy(Get(ci, "phone")) => customer.phone = ""

\* C19: each of address1, city, province, country and zip of the billing
\* address /place-order sends is the billing field when given, else the
\* shipping field, else the placeholder.
C19_BillingFallbackChain ==
    (endpoint = "/place-order" /\ CreationIndex > 0) =>
        \A key \in AddressKeys :
            Get(CreationPayload.billing_address, key)
                = Or(Addr(req, "billing_address", key),
                     Or(Addr(req, "shipping_address", key), Placeholder(key)))

\* C20: the line items of the creation call are the requested ones in input
\* order, each with variant_id and quantity and no other field.
C20_LineItemsProjected ==
    CreationIndex > 0 =>
        LET items == CreationPayload.line_items IN
        /\ Len(items) = Len(req.line_items)
        /\ \A k \in 1..Len(items) :
              /\ ForwardedKeys(items[k]) = {"variant_id", "quantity"}
              /\ items[k].variant_id = req.line_items[k].variant_id
              /\ items[k].quantity = req.line_items[k].quantity

\* ---- findBestVariant -------------------------------------------------------------
\* the rule of the claim an entry falls under, from its title, its option
\* label and the requested text
EqualsRequest(e) ==
    \/ ToLowerCase(e.variant_title) = ToLowerCase(requestedVariant)
    \/ ToLowerCase(e.variant_options) = ToLowerCase(requestedVariant)
ContainsRequest(e) ==
    \/ Includes(ToLowerCase(e.variant_title), ToLowerCase(requestedVariant))
    \/ Includes(ToLowerCase(e.variant_options), ToLowerCase(requestedVariant))
Rank(e) == IF EqualsRequest(e) THEN 1 ELSE IF ContainsRequest(e) THEN 2 ELSE 3

\* C16: in the sequence findBestVariant returns, every entry equal to the
\* request (case-insensitively, by title or option label) comes before every
\* entry that only contains it, and those before every entry matched by word
\* overlap only; their scores are 100, 75 and at most 50.
C16_ExactThenSubstringThenWords ==
    pc = "matched" =>
        /\ \A i, j \in 1..Len(matchingVariants) :
              Rank(matchingVariants[i]) < Rank(matchingVariants[j]) => i < j
        /\ \A i \in 1..Len(matchingVariants) :
              LET e == matchingVariants[i] IN
              CASE Rank(e) = 1 -> e.match_score = Number(100)
                [] Rank(e) = 2 -> e.match_score = Number(75)
                [] Rank(e) = 3 -> ~Greater(e.match_score, Number(50))

C16_Witness ==
    /\ pc = "matched"
    /\ Len(matchingVariants) = 3
    /\ Rank(matchingVariants[1]) = 1
    /\ Rank(matchingVariants[2]) = 2
    /\ Rank(matchingVariants[3]) = 3
    /\ matchingVariants[1].variant_id > matchingVariants[2].variant_id

\* C17: the sequence findBestVariant returns is in non-increasing order of
\* match_score over the variants of all products, and every match_score lies
\* in [0, 100].
C17_SortedAndBounded ==
    pc = "matched" =>
        /\ \A i, j \in 1..Len(matchingVariants) :
              i < j => ~Greater(matchingVariants[j].match_score,
                                matchingVariants[i].match_score)
        /\ \A i \in 1..Len(matchingVariants) :
              /\ ~Greater(Number(0), matchingVariants[i].match_score)
              /\ ~Greater(matchingVariants[i].match_score, Number(100))

C17_Witness ==
    /\ pc = "matched"
    /\ Len(products) = 2
    /\ Len(matchingVariants) >= 3
    /\ matchingVariants[1].variant_id \in IdsOf(VariantsOf(products[2]))
    /\ matchingVariants[2].variant_id \in IdsOf(VariantsOf(products[1]))
    /\ Greater(matchingVariants[1].match_score, matchingVariants[2].match_score)
    /\ Greater(matchingVariants[2].match_score, matchingVariants[3].match_score)

\* the variants of the products handed to findBestVariant
CatalogVariants ==
    UNION {{VariantsOf(products[p])[k] : k \in 1..Len(VariantsOf(products[p]))} :
              p \in 1..Len(products)}
Returned(v) == \E i \in 1..Len(matchingVariants) : matchingVariants[i].variant_id = v.id
ScoreOf(v) ==
    matchingVariants[CHOOSE i \in 1..Len(matchingVariants) :
                        matchingVariants[i].variant_id = v.id].match_score
RequestedLower == ToLowerCase(requestedVariant)
TitleLower(v) == ToLowerCase(VariantTitle(v))
LabelLower(v) == ToLowerCase(VariantOptions(v))
\* one of two unequal, non-empty texts occurs in the other
OneContainsOther(a, b) ==
    /\ a # b /\ a # <<>> /\ b # <<>>
    /\ Includes(a, b) \/ Includes(b, a)
Words(s) == {Split(s)[k] : k \in 1..Len(Split(s))}
\* some requested word is contained in, or contains, a word of the candidate
SomeWordOverlaps(v) ==
    \E word \in Words(RequestedLower) :
        \E vWord \in Words(TitleLower(v) \o Space \o LabelLower(v)) :
            Includes(vWord, word) \/ Includes(word, vWord)

\* C24: a variant whose title or option label is unequal to the request while
\* one contains the other, in either direction, is returned with score 75.
C24_SubstringEitherDirection ==
    pc = "matched" =>
        \A v \in CatalogVariants :
            (/\ TitleLower(v) # RequestedLower
             /\ LabelLower(v) # RequestedLower
             /\ \/ OneContainsOther(TitleLower(v), RequestedLower)
                \/ OneContainsOther(LabelLower(v), RequestedLower))
            => Returned(v) /\ ScoreOf(v) = Number(75)

\* C25: a variant is returned exactly when its score is positive: returned
\* entries have a positive score, a variant that is missing equals nothing,
\* contains nothing and shares no word with the request, and only variants of
\* the products are returned, each once.
C25_ReturnedIffPositive ==
    pc = "matched" =>
        /\ \A i \in 1..Len(matchingVariants) : matchingVariants[i].match_score.num > 0
        /\ \A v \in CatalogVariants :
              Returned(v) <=>
                  \/ TitleLower(v) = RequestedLower \/ LabelLower(v) = RequestedLower
                  \/ Includes(TitleLower(v), RequestedLower)
                  \/ Includes(LabelLower(v), RequestedLower)
                  \/ SomeWordOverlaps(v)
        /\ \A i \in 1..Len(matchingVariants) :
              \E v \in CatalogVariants : v.id = matchingVariants[i].variant_id
        /\ \A i, j \in 1..Len(matchingVariants) :
              matchingVariants[i].variant_id = matchingVariants[j].variant_id => i = j

C25_Witness ==
    /\ pc = "matched"
    /\ Len(products) = 2
    /\ ~Has(products[1], "variants")
    /\ \E v, w \in CatalogVariants : Returned(v) /\ ~Returned(w)

\* C26: for the empty requested text every variant of every product is
\* returned, the word rule never divides by zero, and no score exceeds 50.
C26_EmptyRequestMatchesWeakly ==
    (pc = "matched" /\ requestedVariant = <<>>) =>
        /\ \A v \in CatalogVariants : Returned(v)
        /\ \A i \in 1..Len(matchingVariants) :
              /\ matchingVariants[i].match_score.den > 0
              /\ ~Greater(matchingVariants[i].match_score, Number(50))

\* C30: a variant with an empty option label or an empty title is returned
\* for every requested text, with a score of at least 50.
C30_EmptyLabelNeverExcluded ==
    pc = "matched" =>
        \A v \in CatalogVariants :
            (VariantOptions(v) = <<>> \/ VariantTitle(v) = <<>>)
            => Returned(v) /\ ~Greater(Number(50), ScoreOf(v))

C30_Witness ==
    /\ pc = "matched"
    /\ \E v \in CatalogVariants :
          /\ VariantOptions(v) = <<>>
          /\ Returned(v)
          /\ ~Includes(TitleLower(v), RequestedLower)
          /\ \A word \in Words(RequestedLower) :
                word # <<>> /\ ~Includes(TitleLower(v), word) /\ ~Includes(word, TitleLower(v))
          /\ ScoreOf(v) = Number(50)

\* ---- the shipping address --------------------------------------------------------
\* the field of the shipping address the creation call carries; index.js
\* passes shipping_address on as it came, undefined when the request had none
SentShippingField(key) ==
    IF rev = "index.js" /\ ~Has(req, "shipping_address")
      THEN Undefined
      ELSE Get(CreationPayload.shipping_address, key)

\* C27: each of address1, city, province, country and zip of the shipping
\* address /place-order sends is the shipping field when given, else the
\* billing field, else the placeholder.
C27_ShippingFallbackChain ==
    (endpoint = "/place-order" /\ CreationIndex > 0) =>
        \A key \in AddressKeys :
            SentShippingField(key)
                = Or(Addr(req, "shipping_address", key),
                     Or(Addr(req, "billing_address", key), Placeholder(key)))

\* ---- responding and the order of the calls ---------------------------------------
\* C28: when every outbound call eventually returns or fails, every request
\* is answered exactly once: never more than one response is sent, the handler
\* has ended exactly when one was sent, and one is eventually sent.
C28_ExactlyOneResponse ==
    /\ [](Len(sent) <= 1 /\ (pc = "done" <=> Len(sent) = 1))
    /\ <>(pc = "done" /\ Len(sent) = 1)

C28_Witness ==
    /\ endpoint = "/place-order"
    /\ pc = "done"
    /\ Len(sent) = 1
    /\ sent[1].status = 500
    /\ outcomes[CreationIndex].failure = "malformed_response"

\* C29: in a /place-order request the invoice send is issued only once the
\* draft-order creation has succeeded, the 'draft_order_created' webhook only
\* once the invoice send has settled, and after a failed creation neither an
\* invoice send nor a webhook call is issued.
C29_CallsStrictlyOrdered ==
    endpoint = "/place-order" =>
        /\ \A k \in 1..Len(calls) :
              /\ calls[k].kind = "send_invoice" =>
                    /\ k > 1
                    /\ calls[k - 1].kind = "create_draft_order"
                    /\ Len(outcomes) >= k - 1
                    /\ outcomes[k - 1].ok
              /\ (calls[k].kind = "webhook" /\ calls[k].body.type = "draft_order_created") =>
                    /\ k > 1
                    /\ calls[k - 1].kind = "send_invoice"
                    /\ Len(outcomes) >= k - 1
        /\ CreationFailed => Len(InvoiceCalls) = 0 /\ Len(WebhookCalls) = 0

C29_Witness ==
    /\ endpoint = "/place-order"
    /\ pc = "webhook_wait"
    /\ calls[Len(calls)].body.type = "draft_order_created"
    /\ calls[Len(calls) - 1].kind = "send_invoice"
    /\ ~outcomes[Len(outcomes)].ok

\* ---- start-up ------------------------------------------------------------------------
Unconfigured == Falsy(config.shop_domain) \/ Falsy(config.access_token)

\* C21: a process started without the shop domain or without the credential
\* never serves a request and never issues a commerce API call.
C21_NeverRunsUnconfigured ==
    Unconfigured =>
        /\ pc \in {"boot", "exited"}
        /\ Len(sent) = 0
        /\ Len(CallsOfKind({"lookup", "create_draft_order", "create_order", "send_invoice"})) = 0

\* ---- concurrent requests --------------------------------------------------------------
\* the quantity a request of RaceRequests asks for, and the stock its lookup saw
Asked(l) == l.req.line_items[1].quantity
Seen(l) == l.outcomes[1].variant.inventory_quantity
PassedCheck(l) ==
    /\ Len(l.outcomes) >= 1
    /\ l.outcomes[1].ok
    /\ l.pc \in {"create_wait", "invoice_wait", "webhook_wait", "done"}
    /\ Len(SelectSeq(l.calls, LAMBDA c : c.kind = "create_draft_order")) = 1
Created(l) == Has(l.draftOrder, "id")

\* C22: the check and the creation are not atomic. A /place-order request
\* waiting for its creation post passed the check on the stock its own lookup
\* saw, and the creation can succeed whatever the stock is by now and whatever
\* the other request has ordered.
C22_CheckAndCreateNotAtomic ==
    (endpoint = "/place-order" /\ Has(parked, "pc") /\ pc = "create_wait") =>
        /\ PassedCheck(Locals)
        /\ Seen(Locals) >= Asked(Locals)
        /\ ENABLED CreateSucceeds

\* both requests fit the stock they saw, together they exceed it, the other
\* one has its draft order, and the stock has dropped below this one's quantity
C22_Witness ==
    /\ endpoint = "/place-order"
    /\ Has(parked, "pc")
    /\ pc = "create_wait"
    /\ PassedCheck(Locals)
    /\ PassedCheck(parked)
    /\ Created(parked)
    /\ Seen(parked) = Seen(Locals)
    /\ Asked(parked) + Asked(Locals) > Seen(Locals)
    /\ stock[TrackedVariant] < Asked(Locals)

====
